---- MODULE Spec2Model ----
(***************************************************************************)
(* Model of the KeyframeGen component (src/src/KeyframeGen.tsx): the      *)
(* sampler updateSamples, the exporters samplesAsFrames / framesAsJson,   *)
(* the React state and effect that drive them, and the CSS exporter that  *)
(* only src/README.md carries.                                            *)
(*                                                                         *)
(* JavaScript numbers are IEEE-754 doubles.  The sampler accumulates      *)
(* x += step, so the model carries doubles exactly: a non-negative double *)
(* below 2^14 and at least 2^-7 is a multiple of 2^-60, and is kept as    *)
(* the integer value * 2^60 split in three limbs <<hi, mid, lo>> of 22    *)
(* bits (hi is unbounded), rounded to 53 significant bits, ties to even.  *)
(***************************************************************************)
EXTENDS Integers, Sequences, FiniteSets, TLC

\* ------------------------------------------------------------------ bounds
\* Largest width and height of the exhaustively enumerated images.
MaxWidth == 2
MaxHeight == 2
\* Height of the tall single-column images with one black pixel.
TallHeight == 40
\* Largest sampleCount handed to the sampler when it is called directly.
MaxSampleCount == 10
\* Largest number of paste events of one behaviour of the component.
MaxPastes == 2

\* ------------------------------------------------------- IEEE-754 doubles
Base == 2^22
\* 1.0 in the top limb: 60 fraction bits = 2 * 22 + 16.
TopOne == 2^16
\* hi limb bits that belong to a 53 bit significand: 53 - 2 * 22.
TopSigBits == 53 - 44

Zero == <<0, 0, 0>>

FromInt(k) == <<k * TopOne, 0, 0>>

RECURSIVE BitLen(_)
BitLen(k) == IF k = 0 THEN 0 ELSE 1 + BitLen(k \div 2)

\* Exact sum of two fixed-point values (no rounding).
AddRaw(a, b) ==
  LET lo  == a[3] + b[3]
      mid == a[2] + b[2] + (lo \div Base)
  IN  <<a[1] + b[1] + (mid \div Base), mid % Base, lo % Base>>

\* Round an exact value to the nearest double, ties to even.  sticky says
\* that the exact value has non-zero bits below the fixed-point grid.
RoundToDouble(d, sticky) ==
  LET u == BitLen(d[1]) - TopSigBits
  IN  IF u <= 0 THEN d
      ELSE LET ulp  == 2^u
               rem  == d[3] % ulp
               half == ulp \div 2
               down == <<d[1], d[2], d[3] - rem>>
               odd  == ((d[3] \div ulp) % 2) = 1
               up   == \/ rem > half
                       \/ rem = half /\ (sticky \/ odd)
           IN  IF up THEN AddRaw(down, <<0, 0, ulp>>) ELSE down

\* a + b on doubles.
AddD(a, b) == RoundToDouble(AddRaw(a, b), FALSE)

\* a / b on integer-valued doubles, a >= 1, 1 <= b < 512, a / b >= 2^-7.
DivD(a, b) ==
  LET n2 == a * TopOne
      q2 == n2 \div b
      n1 == (n2 % b) * Base
      q1 == n1 \div b
      n0 == (n1 % b) * Base
      q0 == n0 \div b
  IN  RoundToDouble(<<q2, q1, q0>>, (n0 % b) # 0)

\* d * k on doubles, k a small non-negative integer.
MulD(d, k) ==
  LET lo  == d[3] * k
      mid == d[2] * k + (lo \div Base)
      hi  == d[1] * k + (mid \div Base)
  IN  RoundToDouble(<<hi, mid % Base, lo % Base>>, FALSE)

\* a <= b on doubles.
LeqD(a, b) ==
  \/ a[1] < b[1]
  \/ a[1] = b[1] /\ a[2] < b[2]
  \/ a[1] = b[1] /\ a[2] = b[2] /\ a[3] <= b[3]

\* Math.floor(d) as an integer.
MathFloor(d) == d[1] \div TopOne

\* Math.round(d): the integer nearest to d, halves rounded up.
MathRound(d) == (d[1] + (TopOne \div 2)) \div TopOne

Min(a, b) == IF a <= b THEN a ELSE b


\* ------------------------------------------------------------------ pixels
\* RGBA quadruples as getImageData returns them.
Black == <<0, 0, 0, 255>>
White == <<255, 255, 255, 255>>
Grey  == <<100, 100, 100, 255>>
Navy  == <<0, 0, 200, 255>>
Clear == <<0, 0, 0, 0>>
\* fillStyle / strokeStyle "red" and "white".
Red   == <<255, 0, 0, 255>>

lineWidth == 3
OuterRadius == 12
InnerRadius == 10

\* An image (or canvas bitmap): width, height and the flat RGBA byte array,
\* 4 bytes per pixel, rows first.  TLA+ sequences start at 1, the array at 0.
Bitmap(w, h, px) ==
  [width |-> w, height |-> h,
   data |-> [i \in 1..(w * h * 4) |-> px[((i - 1) \div 4) + 1][((i - 1) % 4) + 1]]]

At(data, index) == data[index + 1]

\* Fault injection for isBlack: the alpha test is left out.
isBlackAnyAlpha(r, g, b, a, threshold) ==
  r < threshold /\ g < threshold /\ b < threshold

\* isBlack of updateSamples.
isBlack(r, g, b, a, threshold) ==
  r < threshold /\ g < threshold /\ b < threshold /\ a = 255

\* The inner loop: the first row y0 <= y < height of column xFloor that is
\* black, or height when the loop ends without a hit.
RECURSIVE ScanColumn(_, _, _)
ScanColumn(img, threshold, c) ==
  IF c.y < img.height
  THEN LET index == (c.y * img.width + c.xFloor) * 4
           r == At(img.data, index)
           g == At(img.data, index + 1)
           b == At(img.data, index + 2)
           a == At(img.data, index + 3)
       IN  IF isBlack(r, g, b, a, threshold)
           THEN c.y
           ELSE ScanColumn(img, threshold, [c EXCEPT !.y = c.y + 1])
  ELSE img.height

\* Math.min(width - 1, Math.floor(x)).
xFloorOf(width, x) == Min(width - 1, MathFloor(x))

\* step = width / (sampleCount - 1): a double, Infinity when sampleCount is
\* 1, negative when it is below 1.
Step(width, sampleCount) ==
  IF sampleCount - 1 > 0 THEN [sign |-> "finite", val |-> DivD(width, sampleCount - 1)]
  ELSE IF sampleCount - 1 = 0 THEN [sign |-> "infinite", val |-> Zero]
  ELSE [sign |-> "negative", val |-> FromInt(width)]

\* Fault injection for Visit: the point carries Math.floor(x), not xFloor.
VisitUnclampedX(img, threshold, x) ==
  LET xFloor == xFloorOf(img.width, x)
      y == ScanColumn(img, threshold, [xFloor |-> xFloor, y |-> 0])
  IN  IF y < img.height
      THEN [points |-> <<[x |-> MathFloor(x), y |-> img.height - y]>>,
            marks  |-> <<[x |-> x, y |-> y]>>]
      ELSE [points |-> <<>>, marks |-> <<>>]

\* One pass of the outer loop body at x: the point pushed, if any, and the
\* place of the marks drawn for it (x is not floored for the drawing).
Visit(img, threshold, x) ==
  LET xFloor == xFloorOf(img.width, x)
      y == ScanColumn(img, threshold, [xFloor |-> xFloor, y |-> 0])
  IN  IF y < img.height
      THEN [points |-> <<[x |-> xFloor, y |-> img.height - y]>>,
            marks  |-> <<[x |-> x, y |-> y]>>]
      ELSE [points |-> <<>>, marks |-> <<>>]

\* The outer loop: for (let x = 0; x <= width; x += step).
RECURSIVE SampleLoop(_, _, _, _, _)
SampleLoop(img, threshold, step, x, acc) ==
  IF LeqD(x, FromInt(img.width))
  THEN LET v == Visit(img, threshold, x)
       IN  SampleLoop(img, threshold, step, AddD(x, step),
                      [points |-> acc.points \o v.points, marks |-> acc.marks \o v.marks])
  ELSE acc

\* Canvas rasterisation: device coordinates in 1/256 pixel, a pixel takes the
\* paint when its centre lies inside the shape.
SubPixel == 2^8
Quantise(x) == x[1] \div (TopOne \div SubPixel)
InDisc(px, py, m, radius) ==
  LET dx == px * SubPixel + SubPixel \div 2 - Quantise(m.x)
      dy == py * SubPixel + SubPixel \div 2 - m.y * SubPixel
  IN  dx * dx + dy * dy <= (radius * SubPixel) * (radius * SubPixel)
InStroke(px, m) ==
  LET dx == px * SubPixel + SubPixel \div 2 - Quantise(m.x)
  IN  2 * dx <= lineWidth * SubPixel /\ -2 * dx <= lineWidth * SubPixel

\* The marks of one hit: the vertical red line, the white dot, the red dot.
DrawMark(bmp, m) ==
  [bmp EXCEPT !.data =
     [i \in 1..Len(bmp.data) |->
        LET p  == (i - 1) \div 4
            px == p % bmp.width
            py == p \div bmp.width
            ch == ((i - 1) % 4) + 1
        IN  IF InDisc(px, py, m, InnerRadius) THEN Red[ch]
            ELSE IF InDisc(px, py, m, OuterRadius) THEN White[ch]
            ELSE IF InStroke(px, m) THEN Red[ch]
            ELSE bmp.data[i]]]

RECURSIVE DrawMarks(_, _)
DrawMarks(bmp, marks) ==
  IF marks = <<>> THEN bmp ELSE DrawMarks(DrawMark(bmp, Head(marks)), Tail(marks))

\* updateSamples(canvas, sampleCount, threshold): what it returns, whether it
\* returns at all, and the canvas it leaves.  getImageData copies the pixels
\* before the loop, so the marks drawn in the loop are not read by it.
updateSamples(cv, sampleCount, threshold) ==
  LET step == Step(cv.width, sampleCount)
      first == Visit(cv, threshold, Zero)
  IN  CASE step.sign = "finite" ->
             LET got == SampleLoop(cv, threshold, step.val, Zero, [points |-> <<>>, marks |-> <<>>])
             IN  [outcome |-> "returned", newSamples |-> got.points, canvas |-> DrawMarks(cv, got.marks)]
        [] step.sign = "infinite" ->
             \* 0 + Infinity ends the loop after the pass at x = 0
             [outcome |-> "returned", newSamples |-> first.points, canvas |-> DrawMarks(cv, first.marks)]
        [] OTHER ->
             \* x only decreases: x <= width holds for ever
             [outcome |-> "diverged", newSamples |-> first.points, canvas |-> DrawMarks(cv, first.marks)]

\* ------------------------------------------------------------------ canvas
NoImage == [id |-> 0, width |-> 0, height |-> 0, data |-> <<>>]
NoCanvas == [width |-> 0, height |-> 0, data |-> <<>>]

\* <canvas width={image.width} height={image.height}>: a new or resized
\* canvas is transparent black.
NewCanvas(w, h) == [width |-> w, height |-> h, data |-> [i \in 1..(w * h * 4) |-> 0]]

\* ctx.clearRect(0, 0, canvas.width, canvas.height)
clearRect(cv) == NewCanvas(cv.width, cv.height)

\* ctx.drawImage(image, 0, 0), source-over: an opaque source pixel replaces
\* the canvas pixel, a fully transparent one leaves it (the images of the
\* model have no other alpha).
drawImage(cv, img) ==
  [cv EXCEPT !.data =
     [i \in 1..Len(cv.data) |->
        LET p  == (i - 1) \div 4
            px == p % cv.width
            py == p \div cv.width
            ch == ((i - 1) % 4) + 1
            si == (py * img.width + px) * 4
        IN  IF px < img.width /\ py < img.height /\ At(img.data, si + 3) = 255
            THEN At(img.data, si + ch - 1)
            ELSE cv.data[i]]]

\* --------------------------------------------------------------- exporters
Digit(d) == ToString(d)

\* String(c / 100) for an integer c >= 0: JavaScript prints the shortest
\* decimal, so at most two fraction digits and no trailing zero.
NumberToString(c) ==
  LET ip == c \div 100
      fr == c % 100
  IN  IF fr = 0 THEN ToString(ip)
      ELSE IF fr % 10 = 0 THEN ToString(ip) \o "." \o Digit(fr \div 10)
      ELSE ToString(ip) \o "." \o Digit(fr \div 10) \o Digit(fr % 10)

\* Math.round((sample.y / image.height) * 100), the numerator of the factor.
Hundredths(y, height) ==
  IF y = 0 THEN 0 ELSE MathRound(MulD(DivD(y, height), 100))

\* samplesAsFrames(): no frames without an image, else one frame a sample.
samplesAsFrames(img, smp) ==
  IF img = NoImage THEN <<>>
  ELSE [i \in 1..Len(smp) |->
          [scale |-> "1 " \o NumberToString(Hundredths(smp[i].y, img.height))]]

RECURSIVE JoinLines(_, _)
JoinLines(parts, sep) ==
  IF parts = <<>> THEN ""
  ELSE IF Len(parts) = 1 THEN parts[1]
  ELSE parts[1] \o sep \o JoinLines(Tail(parts), sep)

\* JSON.stringify(frames, null, 2)
JSONstringify(frames) ==
  IF frames = <<>> THEN "[]"
  ELSE "[\n"
       \o JoinLines([i \in 1..Len(frames) |->
                       "  {\n    \"scale\": \"" \o frames[i].scale \o "\"\n  }"], ",\n")
       \o "\n]"

\* framesAsJson()
framesAsJson(img, smp) == JSONstringify(samplesAsFrames(img, smp))

\* Fault injection for cssStep: Math.round in place of Math.floor.
cssStepRounded(m) == IF m - 1 > 0 THEN MathRound(DivD(100, m - 1)) ELSE 0

\* step of samplesAsCssTranslateY: Math.floor(100 / (samples.length - 1)).
\* With fewer than two samples it is Infinity or -100 and is never printed.
cssStep(m) == IF m - 1 > 0 THEN MathFloor(DivD(100, m - 1)) ELSE 0

\* The loop of samplesAsCssTranslateY: percent starts at 0 and grows by step
\* after each part.
RECURSIVE cssLoop(_, _, _, _)
cssLoop(img, smp, percent, step) ==
  IF smp = <<>> THEN <<>>
  ELSE <<[percent |-> percent,
          text |-> ToString(percent) \o "% { translate: 0 "
                   \o NumberToString(Hundredths(Head(smp).y, img.height)) \o " }"]>>
       \o cssLoop(img, Tail(smp), percent + step, step)

cssParts(img, smp) ==
  IF img = NoImage THEN <<>> ELSE cssLoop(img, smp, 0, cssStep(Len(smp)))

\* samplesAsCssTranslateY()
samplesAsCssTranslateY(img, smp) ==
  IF img = NoImage THEN ""
  ELSE JoinLines([i \in 1..Len(cssParts(img, smp)) |-> cssParts(img, smp)[i].text], "\n")

\* ------------------------------------------------------------------- state
VARIABLES
  image,        \* useState: the loaded image, NoImage for undefined
  message,      \* useState
  sampleCount,  \* useState
  threshold,    \* useState
  samples,      \* useState
  canvas,       \* the bitmap of canvasRef.current, NoCanvas when unmounted
  rendered,     \* the state the last render closed over
  effectDeps,   \* the dependencies drawImageAndUpdateSamples last ran with
  loading,      \* the Image objects whose src is set and that have not fired
  pastes,       \* paste events so far
  timers,       \* some setTimeout callback of copyFrames is pending
  output,       \* the text the exporter called in this step returned (shown, or
                \* written to the clipboard), and what it was made from
  calls,        \* the last two direct calls of updateSamples
  fresh         \* the image was drawn on the canvas since the last direct call

vars == <<image, message, sampleCount, threshold, samples, canvas, rendered,
          effectDeps, loading, pastes, timers, output, calls, fresh>>

DefaultSampleCount == 5
DefaultThreshold == 127

NoOutput == [kind |-> "none", items |-> <<>>, text |-> "", image |-> NoImage, samples |-> <<>>]
NotRendered == [mounted |-> FALSE]
NoDeps == [ran |-> FALSE]

\* --------------------------------------------------------------- the inputs
ImageOf(k, bmp) == [id |-> k, width |-> bmp.width, height |-> bmp.height, data |-> bmp.data]

PixelsOf(w, h, kinds) == [1..(w * h) -> kinds]

\* Every black-and-white image up to MaxWidth x MaxHeight.
BitmapImages ==
  UNION {{Bitmap(w, h, px) : px \in PixelsOf(w, h, {Black, White})} :
           <<w, h>> \in (1..MaxWidth) \X (1..MaxHeight)}

\* Every single column up to MaxHeight of the five pixel kinds.
ColumnImages ==
  UNION {{Bitmap(1, h, px) : px \in PixelsOf(1, h, {Black, White, Grey, Navy, Clear})} :
           h \in 1..MaxHeight}

\* Tall white columns with one black pixel.
TallImages ==
  {Bitmap(1, TallHeight, [i \in 1..TallHeight |-> IF i = r THEN Black ELSE White]) :
     r \in 1..TallHeight}

\* One-colour images, black or white.
SolidImages ==
  UNION {{Bitmap(w, h, [i \in 1..(w * h) |-> k]) : k \in {Black, White}} :
           <<w, h>> \in (1..MaxWidth) \X (1..MaxHeight)}

ColumnThresholds == {100, DefaultThreshold, 255}

\* What the sampler is called with directly: <<image, sampleCount, threshold>>.
SamplerInputs ==
  (BitmapImages \X (2..(MaxWidth + 1)) \X {DefaultThreshold})
    \cup (SolidImages \X (0..MaxSampleCount) \X {0, DefaultThreshold})
    \cup (ColumnImages \X {2} \X ColumnThresholds)
    \cup (TallImages \X {2} \X {DefaultThreshold})

\* What the sliders can be moved to (min 2, max 100; min 0, max 255).
SliderCounts == {2, DefaultSampleCount}
SliderThresholds == {0, DefaultThreshold}

\* ------------------------------------------- the sampler called directly
Hung == calls # <<>> /\ calls[Len(calls)].outcome = "diverged"

LastTwo(s) == IF Len(s) > 2 THEN Tail(s) ELSE s

SamplerInit ==
  /\ \E inp \in SamplerInputs :
       /\ image = ImageOf(1, inp[1])
       /\ sampleCount = inp[2]
       /\ threshold = inp[3]
       /\ canvas = drawImage(NewCanvas(inp[1].width, inp[1].height), ImageOf(1, inp[1]))
  /\ fresh = TRUE
  /\ samples = <<>>
  /\ calls = <<>>
  /\ output = NoOutput
  /\ message = ""
  /\ rendered = NotRendered
  /\ effectDeps = NoDeps
  /\ loading = {}
  /\ pastes = 0
  /\ timers = FALSE

\* updateSamples(canvas, sampleCount, threshold) on the canvas as it is.
CallUpdateSamples ==
  /\ ~Hung
  /\ \E r \in {updateSamples(canvas, sampleCount, threshold)} :
         /\ canvas' = r.canvas
         /\ samples' = IF r.outcome = "returned" THEN r.newSamples ELSE samples
         /\ calls' = LastTwo(Append(calls, [fresh |-> fresh, outcome |-> r.outcome,
                                            newSamples |-> r.newSamples]))
  /\ fresh' = FALSE
  /\ output' = NoOutput
  /\ UNCHANGED <<image, message, sampleCount, threshold, rendered, effectDeps,
                 loading, pastes, timers>>

\* Fault injection for RedrawImage: the image is not drawn again.
RedrawImageSkipped ==
  /\ ~Hung
  /\ ~fresh
  /\ fresh' = TRUE
  /\ output' = NoOutput
  /\ UNCHANGED <<image, message, sampleCount, threshold, samples, canvas, rendered,
                 effectDeps, loading, pastes, timers, calls>>

\* ctx.clearRect(...); ctx.drawImage(image, 0, 0)
RedrawImage ==
  /\ ~Hung
  /\ ~fresh
  /\ canvas' = drawImage(clearRect(canvas), image)
  /\ fresh' = TRUE
  /\ output' = NoOutput
  /\ UNCHANGED <<image, message, sampleCount, threshold, samples, rendered, effectDeps,
                 loading, pastes, timers, calls>>

JsonOutput(img, smp) ==
  [kind |-> "json", items |-> samplesAsFrames(img, smp), text |-> framesAsJson(img, smp),
   image |-> img, samples |-> smp]

CssOutput(img, smp) ==
  [kind |-> "css", items |-> cssParts(img, smp), text |-> samplesAsCssTranslateY(img, smp),
   image |-> img, samples |-> smp]

\* framesAsJson() on the samples the sampler just stored.
CallFramesAsJson ==
  /\ ~Hung
  /\ calls # <<>> /\ ~fresh
  /\ output' = JsonOutput(image, samples)
  /\ UNCHANGED <<image, message, sampleCount, threshold, samples, canvas, rendered,
                 effectDeps, loading, pastes, timers, calls, fresh>>

\* samplesAsCssTranslateY() on the samples the sampler just stored.
CallSamplesAsCssTranslateY ==
  /\ ~Hung
  /\ calls # <<>> /\ ~fresh
  /\ output' = CssOutput(image, samples)
  /\ UNCHANGED <<image, message, sampleCount, threshold, samples, canvas, rendered,
                 effectDeps, loading, pastes, timers, calls, fresh>>

SamplerNext ==
  \/ CallUpdateSamples
  \/ RedrawImage
  \/ CallFramesAsJson
  \/ CallSamplesAsCssTranslateY

SamplerSpec == SamplerInit /\ [][SamplerNext]_vars

\* ----------------------------------------------------------- the component
\* What a paste can put in the clipboard: an image that decodes, or one that
\* does not.
PasteImages ==
  {Bitmap(1, h, [i \in 1..h |-> Black]) : h \in {1, MaxHeight}}
    \cup {Bitmap(MaxWidth, 1, [i \in 1..MaxWidth |-> White])}
Broken == [width |-> 0, height |-> 0, data |-> <<>>]

Init ==
  /\ image = NoImage
  /\ message = ""
  /\ sampleCount = DefaultSampleCount
  /\ threshold = DefaultThreshold
  /\ samples = <<>>
  /\ canvas = NoCanvas
  /\ rendered = NotRendered
  /\ effectDeps = NoDeps
  /\ loading = {}
  /\ pastes = 0
  /\ timers = FALSE
  /\ output = NoOutput
  /\ calls = <<>>
  /\ fresh = FALSE

State == [mounted |-> TRUE, image |-> image, message |-> message,
          sampleCount |-> sampleCount, threshold |-> threshold, samples |-> samples]

\* Fault injection for DepsOf: threshold is missing from the dependency list.
DepsOfNoThreshold(r) == [ran |-> TRUE, image |-> r.image, sampleCount |-> r.sampleCount,
                         threshold |-> DefaultThreshold]

\* [image, sampleCount, updateSamples, threshold]
DepsOf(r) == [ran |-> TRUE, image |-> r.image, sampleCount |-> r.sampleCount,
              threshold |-> r.threshold]

\* The effect of the last render has not run yet.
EffectPending == rendered.mounted /\ effectDeps # DepsOf(rendered)

\* The paste listener is added by the effect initPasteListener of the first
\* render, and the sliders and the button exist once rendered.  The handlers
\* write only state that a pending effect does not read, and the effect
\* writes only state that no handler reads: a handler and the pending effect
\* give the same state in either order.  The model runs the effect first.
HandlerCanRun == rendered.mounted /\ ~EffectPending

\* The paste listener: no clipboardData.
PasteNoData ==
  /\ HandlerCanRun
  /\ pastes < MaxPastes
  /\ pastes' = pastes + 1
  /\ output' = NoOutput
  /\ UNCHANGED <<image, message, sampleCount, threshold, samples, canvas, rendered,
                 effectDeps, loading, timers, calls, fresh>>

\* The paste listener: no item is an image with a file.
PasteNoImage ==
  /\ HandlerCanRun
  /\ pastes < MaxPastes
  /\ pastes' = pastes + 1
  /\ message' = "Copy an image and try pasting again."
  /\ output' = NoOutput
  /\ UNCHANGED <<image, sampleCount, threshold, samples, canvas, rendered,
                 effectDeps, loading, timers, calls, fresh>>

\* The paste listener: an image item; newImage.src is set.
PasteImage ==
  /\ HandlerCanRun
  /\ pastes < MaxPastes
  /\ pastes' = pastes + 1
  /\ \E bmp \in PasteImages \cup {Broken} :
       loading' = loading \cup {[paste |-> pastes + 1, bmp |-> bmp]}
  /\ output' = NoOutput
  /\ UNCHANGED <<image, message, sampleCount, threshold, samples, canvas, rendered,
                 effectDeps, timers, calls, fresh>>

\* Image objects are told apart by a number; a new one takes the least
\* number that no object still referred to carries.
NewId ==
  LET used == {image.id}
                \cup (IF rendered.mounted THEN {rendered.image.id} ELSE {})
                \cup (IF effectDeps.ran THEN {effectDeps.image.id} ELSE {})
  IN  CHOOSE k \in 1..4 : k \notin used /\ \A j \in 1..(k - 1) : j \in used

\* newImage.onload
ImageOnLoad ==
  /\ HandlerCanRun
  /\ \E l \in loading :
       /\ l.bmp.width > 0
       /\ loading' = loading \ {l}
       /\ image' = ImageOf(NewId, l.bmp)
  /\ message' = ""
  /\ output' = NoOutput
  /\ UNCHANGED <<sampleCount, threshold, samples, canvas, rendered, effectDeps,
                 pastes, timers, calls, fresh>>

\* newImage.onerror
ImageOnError ==
  /\ HandlerCanRun
  /\ \E l \in loading :
       /\ l.bmp.width = 0
       /\ loading' = loading \ {l}
  /\ image' = NoImage
  /\ message' = "[object Event]"
  /\ output' = NoOutput
  /\ UNCHANGED <<sampleCount, threshold, samples, canvas, rendered, effectDeps,
                 pastes, timers, calls, fresh>>

\* onChange of the Samples slider
ChangeSampleCount ==
  /\ HandlerCanRun
  /\ \E v \in SliderCounts \ {sampleCount} : sampleCount' = v
  /\ output' = NoOutput
  /\ UNCHANGED <<image, message, threshold, samples, canvas, rendered, effectDeps,
                 loading, pastes, timers, calls, fresh>>

\* onChange of the Threshold slider
ChangeThreshold ==
  /\ HandlerCanRun
  /\ \E v \in SliderThresholds \ {threshold} : threshold' = v
  /\ output' = NoOutput
  /\ UNCHANGED <<image, message, sampleCount, samples, canvas, rendered, effectDeps,
                 loading, pastes, timers, calls, fresh>>

\* The canvas element after a render with image img.
RenderCanvas(cv, img) ==
  IF img = NoImage THEN NoCanvas
  ELSE IF cv.width = img.width /\ cv.height = img.height THEN cv
  ELSE NewCanvas(img.width, img.height)

\* One render of KeyframeGen: it closes over the state, mounts, resizes or
\* unmounts the canvas, and shows framesAsJson() when there are samples.
\* React runs the effects of a render before it renders again.
Render ==
  /\ rendered # State
  /\ ~EffectPending
  /\ rendered' = State
  /\ canvas' = RenderCanvas(canvas, image)
  /\ output' = IF samples # <<>> THEN JsonOutput(image, samples) ELSE NoOutput
  /\ UNCHANGED <<image, message, sampleCount, threshold, samples, effectDeps,
                 loading, pastes, timers, calls, fresh>>

\* The effect drawImageAndUpdateSamples, with the values its render closed over.
drawImageAndUpdateSamples ==
  /\ EffectPending
  /\ effectDeps' = DepsOf(rendered)
  /\ IF rendered.image = NoImage \/ canvas = NoCanvas
     THEN UNCHANGED <<canvas, samples>>
     ELSE \E r \in {updateSamples(drawImage(clearRect(canvas), rendered.image),
                                  rendered.sampleCount, rendered.threshold)} :
            /\ canvas' = r.canvas
            /\ samples' = IF r.outcome = "returned" THEN r.newSamples ELSE samples
  /\ output' = NoOutput
  /\ UNCHANGED <<image, message, sampleCount, threshold, rendered, loading, pastes,
                 timers, calls, fresh>>

\* copyFrames, from the Copy Keyframes button of the last render (disabled
\* without samples): framesAsJson() is handed to clipboard.writeText; when
\* that resolves "Copied" is shown for a second, when it rejects the error.
copyFrames ==
  /\ HandlerCanRun
  /\ rendered.samples # <<>>
  /\ output' = JsonOutput(rendered.image, rendered.samples)
  /\ \/ message' = "Copied" /\ timers' = TRUE
     \/ message' = "NotAllowedError" /\ timers' = timers
  /\ UNCHANGED <<image, sampleCount, threshold, samples, canvas, rendered, effectDeps,
                 loading, pastes, calls, fresh>>

\* A setTimeout callback of copyFrames; others may still be pending.
CopiedTimeout ==
  /\ HandlerCanRun
  /\ timers
  /\ timers' \in BOOLEAN
  /\ message' = ""
  /\ output' = NoOutput
  /\ UNCHANGED <<image, sampleCount, threshold, samples, canvas, rendered, effectDeps,
                 loading, pastes, calls, fresh>>

Next ==
  \/ PasteNoData
  \/ PasteNoImage
  \/ PasteImage
  \/ ImageOnLoad
  \/ ImageOnError
  \/ ChangeSampleCount
  \/ ChangeThreshold
  \/ Render
  \/ drawImageAndUpdateSamples
  \/ copyFrames
  \/ CopiedTimeout

Spec == Init /\ [][Next]_vars

\* ------------------------------------------------------------------ claims
\* The predicate of the claims on pixel <<col, row>> of a buffer: red, green
\* and blue below the threshold, alpha 255.
DarkOpaque(buf, col, row, t) ==
  LET i == (row * buf.width + col) * 4
  IN  /\ buf.data[i + 1] < t
      /\ buf.data[i + 2] < t
      /\ buf.data[i + 3] < t
      /\ buf.data[i + 4] = 255

DarkRows(buf, col, t) == {r \in 0..(buf.height - 1) : DarkOpaque(buf, col, r, t)}

TopDarkRow(buf, col, t) ==
  CHOOSE r \in DarkRows(buf, col, t) : \A q \in DarkRows(buf, col, t) : r <= q

\* The positions x = 0, step, 2 step, ... <= width of the double arithmetic.
RECURSIVE PositionsFrom(_, _, _)
PositionsFrom(x, step, width) ==
  IF LeqD(x, FromInt(width))
  THEN <<x>> \o PositionsFrom(AddD(x, step), step, width)
  ELSE <<>>

\* The columns a call with sampleCount >= 2 samples, in order.
SampledColumns(width, n) ==
  LET xs == PositionsFrom(Zero, DivD(width, n - 1), width)
  IN  [i \in 1..Len(xs) |-> Min(width - 1, MathFloor(xs[i]))]

\* The buffer a direct call reads when the image was just drawn.
FreshBuffer == drawImage(NewCanvas(image.width, image.height), image)

LastCall == calls[Len(calls)]

\* C1: a call with sampleCount n >= 2 returns exactly n points, whatever the
\* pixels and whatever the ratio of n to the width.
C1_ExactlyNPoints ==
  \A i \in 1..Len(calls) :
    (sampleCount >= 2 /\ calls[i].outcome = "returned")
      => Len(calls[i].newSamples) = sampleCount

\* C2: every point the sampler emits for a column has y = H - r, r the least
\* row of that column whose pixel is dark and opaque on the buffer read
\* (so y = H when row 0 is, and no row below r matters).
C2_TopmostDarkPixel ==
  [][CallUpdateSamples =>
       (sampleCount >= 2 =>
          \A i \in 1..Len(calls'[Len(calls')].newSamples) :
            LET pt == calls'[Len(calls')].newSamples[i]
            IN  /\ pt.x \in 0..(canvas.width - 1)
                /\ DarkRows(canvas, pt.x, threshold) # {}
                /\ pt.y = canvas.height - TopDarkRow(canvas, pt.x, threshold))]_vars

\* C2 witness: a call on the drawn image emitted y = H for a column whose
\* rows 0 and 1 are both dark and opaque.
C2_Witness ==
  /\ calls # <<>>
  /\ LastCall.fresh /\ sampleCount >= 2
  /\ image.height >= 2
  /\ {0, 1} \subseteq DarkRows(FreshBuffer, 0, threshold)
  /\ LastCall.newSamples # <<>>
  /\ LastCall.newSamples[1] = [x |-> 0, y |-> image.height]

\* C3: a sampled column without a dark opaque pixel still yields one point,
\* with y = 1.
C3_BottomRowFallback ==
  (calls # <<>> /\ LastCall.fresh /\ sampleCount >= 2 /\ LastCall.outcome = "returned")
    => \A c \in {SampledColumns(image.width, sampleCount)[k] :
                   k \in 1..Len(SampledColumns(image.width, sampleCount))} :
         DarkRows(FreshBuffer, c, threshold) = {}
           => \E i \in 1..Len(LastCall.newSamples) :
                LastCall.newSamples[i] = [x |-> c, y |-> 1]

\* C4: the points a call with sampleCount >= 2 returns are ordered by
\* non-decreasing x, with x in 0..W-1 and y in 0..H.
C4_PointsOrderedInRange ==
  \A i \in 1..Len(calls) :
    sampleCount >= 2 =>
      LET pts == calls[i].newSamples
      IN  /\ \A k \in 1..Len(pts) :
               /\ pts[k].x \in 0..(image.width - 1)
               /\ pts[k].y \in 0..image.height
          /\ \A k \in 1..(Len(pts) - 1) : pts[k].x <= pts[k + 1].x

\* C4 witness: a call returned points of two different columns, the last
\* one in column W - 1.
C4_Witness ==
  /\ calls # <<>> /\ sampleCount >= 2
  /\ Len(LastCall.newSamples) >= 2
  /\ LastCall.newSamples[1].x = 0
  /\ LastCall.newSamples[Len(LastCall.newSamples)].x = image.width - 1
  /\ image.width >= 2

\* round(100 * y / H), halves up, in exact arithmetic.
ExactHundredths(y, height) == (200 * y + height) \div (2 * height)

\* C5: the JSON frames of a sample set the sampler produced on the image
\* are one per sample, in order, entry i being "1 f" with
\* f = round(100 * y_i / H) / 100 and 0 <= f <= 1.
C5_FramesAreRoundedRatios ==
  (output.kind = "json" /\ output.image # NoImage)
    => /\ Len(output.items) = Len(output.samples)
       /\ \A i \in 1..Len(output.samples) :
            LET c == ExactHundredths(output.samples[i].y, output.image.height)
            IN  /\ c \in 0..100
                /\ output.items[i] = [scale |-> "1 " \o NumberToString(c)]

\* C6: the CSS rules of m >= 2 samples are m lines in sample order, line k
\* (from 0) keyed k * floor(100 / (m - 1)).
C6_CssPercentKeys ==
  (output.kind = "css" /\ output.image # NoImage /\ Len(output.samples) >= 2)
    => LET m == Len(output.samples)
       IN  /\ Len(output.items) = m
           /\ \A k \in 0..(m - 1) :
                /\ output.items[k + 1].percent = k * (100 \div (m - 1))
                /\ output.items[k + 1].text =
                     ToString(k * (100 \div (m - 1))) \o "% { translate: 0 "
                       \o NumberToString(Hundredths(output.samples[k + 1].y, output.image.height))
                       \o " }"

\* C6 witness: CSS rules of at least three samples whose last key is not 100.
C6_Witness ==
  /\ output.kind = "css"
  /\ Len(output.samples) >= 3
  /\ Len(output.items) = Len(output.samples)
  /\ output.items[Len(output.items)].percent # 100

C8_NoImageEmptyString ==
  (output.kind # "none" /\ output.image = NoImage) => output.text = ""

\* C9: a call with sampleCount < 2 ends in an error: nothing is returned,
\* nothing stored, no endless loop.
C9_BadCountRejected ==
  sampleCount < 2
    => /\ samples = <<>>
       /\ \A i \in 1..Len(calls) : calls[i].outcome \notin {"returned", "diverged"}

\* What the sampler computes from img drawn on a cleared canvas.
SamplesOf(img, n, t) ==
  updateSamples(drawImage(NewCanvas(img.width, img.height), img), n, t).newSamples

FactorsAtMostOne(img, smp) ==
  \A i \in 1..Len(smp) : Hundredths(smp[i].y, img.height) <= 100

\* C10 as claimed: frame text shown or copied while an image is loaded is
\* made of the samples of that image under the sampleCount and threshold of
\* that render, and no factor exceeds 1.
C10_ShownSamplesCurrent ==
  (output.kind = "json" /\ output.image # NoImage)
    => /\ output.samples = SamplesOf(output.image, rendered.sampleCount, rendered.threshold)
       /\ FactorsAtMostOne(output.image, output.samples)

\* Every state change is rendered and the effect of that render has run.
Settled == rendered = State /\ ~EffectPending

\* C10 amended: once every change is rendered and the effect has run, the
\* loaded image is paired with its own samples under the current sampleCount
\* and threshold, the text shown is made of them, and no factor exceeds 1.
C10_SettledSamplesCurrent ==
  (Settled /\ image # NoImage)
    => /\ samples = SamplesOf(image, sampleCount, threshold)
       /\ FactorsAtMostOne(image, samples)
       /\ output.kind = "json" =>
            /\ output.image = image
            /\ output.samples = samples

\* C10 witness: a settled state that shows the frames of a second image.
C10_Witness ==
  /\ Settled /\ image # NoImage
  /\ image.id >= 2
  /\ samples # <<>>
  /\ output.kind = "json"

====
